---- MODULE Spec2Model ----
(***************************************************************************)
(* dutree (src/src/lib.rs): the tree builder (Entry::new, get_bytes, run), *)
(* the bar renderer (fmt_bar) and the tree printer (Entry::print,          *)
(* Entry::print_entries), over a bounded family of filesystem trees.       *)
(*                                                                         *)
(* A filesystem node is a record                                           *)
(*   [name, is_dir, st_size, st_blocks, listable, kids]                    *)
(* kids being the sequence read_dir returns, in enumeration order.  A node *)
(* with listable = FALSE is a directory read_dir fails on, or a symbolic   *)
(* link to a directory (try_read_dir answers None for both).               *)
(*                                                                         *)
(* Option<T> is a sequence of at most one element: None is << >> and       *)
(* Some(x) is << x >>.                                                     *)
(*                                                                         *)
(* run is one action: it builds the tree and prints it.  What the code     *)
(* leaves open is a choice of the action: the order sort_unstable_by gives *)
(* to entries of equal size, and whether the build checks integer overflow *)
(* (a debug build panics where a release build wraps).  A panic ends run;  *)
(* the variable panicked then names it.                                    *)
(*                                                                         *)
(* Spec varies the aggregation threshold, the filters, the size measured   *)
(* and the paths; DepthSpec the depth limit; PrintSpec the terminal width  *)
(* and the palette; BarSpec calls fmt_bar alone on chains of sizes.        *)
(***************************************************************************)
EXTENDS Integers, Sequences, FiniteSets, TLC

VARIABLES
  fs,        \* the filesystem tree the paths of the command line lie in
  cfg,       \* the Config run was given
  twidth,    \* the terminal width Entry::print found
  pc,        \* "start" before run, "done" after it returned or panicked
  entry,     \* Some(the root Entry run built), None before
  out,       \* the rows print_entries printed, in order
  panicked,  \* "no", or the panic that ended run
  wrapped,   \* whether a u8 depth computation left 0..255
  bar_in,    \* the arguments of a call of fmt_bar on its own
  bar_out    \* Some(its result), None before

vars == << fs, cfg, twidth, pc, entry, out, panicked, wrapped, bar_in, bar_out >>

----------------------------------------------------------------------------
(* Bounds of the model.                                                    *)

\* nodes of the filesystem tree, the root included
MaxNodes == 4

----------------------------------------------------------------------------
(* Option, and u8 arithmetic.                                              *)

None == << >>

Some(x) == << x >>

IsSome(o) == Len(o) = 1

\* the width of Config.depth and of the depth parameter of Entry::new
U8Modulus == 256

\* u8 a + b and a - b as a build without overflow checks computes them
WrappingAdd(a, b) == (a + b) % U8Modulus

WrappingSub(a, b) == (a - b + U8Modulus) % U8Modulus

RECURSIVE SumSeq(_)
SumSeq(s) == IF s = << >> THEN 0 ELSE s[1] + SumSeq(Tail(s))

Reverse(s) == [i \in 1..Len(s) |-> s[Len(s) + 1 - i]]

----------------------------------------------------------------------------
(* The filesystem: what the metadata and read_dir calls answer.            *)

\* the names of a directory's entries, in the order read_dir returns them:
\* a directory of k entries holds the first k
NameOrder == << "a", "b", ".git" >>

\* st_size of a regular file
FileSizes == {0, 10, 2000}

\* st_size of a directory
DirSizes == {16}

\* st_blocks for a given st_size: 512-byte blocks, allocated whole
BlocksOf(size) == (size + 511) \div 512

FileNode(name, size) ==
  [name |-> name, is_dir |-> FALSE, st_size |-> size,
   st_blocks |-> BlocksOf(size), listable |-> FALSE, kids |-> << >>]

DirNode(name, size, listable, kids) ==
  [name |-> name, is_dir |-> TRUE, st_size |-> size,
   st_blocks |-> BlocksOf(size), listable |-> listable, kids |-> kids]

RECURSIVE TreesN(_, _), ForestsN(_, _)
\* the trees of exactly n nodes whose root is named name
TreesN(n, name) ==
  IF n = 1
  THEN {FileNode(name, s) : s \in FileSizes}
       \cup {DirNode(name, s, l, << >>) : s \in DirSizes, l \in BOOLEAN}
  ELSE {DirNode(name, s, TRUE, f) : s \in DirSizes, f \in ForestsN(n - 1, 1)}

\* the sequences of trees of m nodes in all, named NameOrder[i], [i+1], ...
ForestsN(m, i) ==
  IF m = 0 THEN {<< >>}
  ELSE IF i > Len(NameOrder) THEN {}
  ELSE UNION { { <<t>> \o f : t \in TreesN(k, NameOrder[i]),
                              f \in ForestsN(m - k, i + 1) }
               : k \in 1..m }

FsTrees == UNION { TreesN(n, "root") : n \in 1..MaxNodes }

----------------------------------------------------------------------------
(* Config::new: the options the builder and the printer read.              *)

\* -d absent: depth_flag = FALSE and depth = 1; -d N: depth_flag = TRUE and
\* depth = N (any u8); -a N: aggr = N bytes, 0 when absent
Config(depth_opt, aggr, exclude, hiddn_flag, usage_flag, ascii_flag, paths) ==
  [paths      |-> paths,
   depth      |-> IF IsSome(depth_opt) THEN depth_opt[1] ELSE 1,
   depth_flag |-> IsSome(depth_opt),
   usage_flag |-> usage_flag,
   hiddn_flag |-> hiddn_flag,
   ascii_flag |-> ascii_flag,
   aggr       |-> aggr,
   exclude    |-> exclude]

----------------------------------------------------------------------------
(* The metadata accessors.                                                 *)

file_name_from_path(path) == path.name

\* None for a symbolic link and for a directory read_dir fails on
try_read_dir(path) ==
  IF path.is_dir /\ path.listable THEN Some(path.kids) ELSE None

try_bytes_from_path(path, usage_flag) ==
  IF usage_flag THEN path.st_blocks * 512 ELSE path.st_size

RECURSIVE get_bytes(_, _)
get_bytes(path, usage_flag) ==
  IF path.is_dir
  THEN LET dir_list == try_read_dir(path)
           below == IF IsSome(dir_list)
                    THEN [i \in 1..Len(dir_list[1]) |->
                            get_bytes(dir_list[1][i], usage_flag)]
                    ELSE << >>
       IN try_bytes_from_path(path, usage_flag) + SumSeq(below)
  ELSE try_bytes_from_path(path, usage_flag)

\* &entry_name[..1] == "." (the names of the model are ASCII, so the slice
\* is always on a character boundary)
StartsWithDot(name) == name \in {".git"}

----------------------------------------------------------------------------
(* Entry::new.  An Entry is [name, bytes, last, entries]; the color field, *)
(* which only the escape sequences around a printed name read, is left out.*)

Entry(name, bytes, last, entries) ==
  [name |-> name, bytes |-> bytes, last |-> last, entries |-> entries]

BytesOf(es) == [i \in 1..Len(es) |-> es[i].bytes]

\* a sort with the comparison the other way round: ascending order of bytes
sort_unstable_by_Ascending(vec) ==
  LET n == Len(vec)
      perms == {f \in [1..n -> 1..n] : \A i, j \in 1..n : i # j => f[i] # f[j]}
  IN {[i \in 1..n |-> vec[f[i]]] : f \in
        {g \in perms : \A i \in 1..(n - 1) : vec[g[i]].bytes <= vec[g[i + 1]].bytes}}

\* a sort that leaves the vector as it was
sort_unstable_by_Identity(vec) == {vec}

\* vec.sort_unstable_by(|a, b| b.bytes.cmp(&a.bytes)): some permutation of
\* vec in descending order of bytes; which one, among equal elements, the
\* sort does not promise
sort_unstable_by(vec) ==
  LET n == Len(vec)
      perms == {f \in [1..n -> 1..n] : \A i, j \in 1..n : i # j => f[i] # f[j]}
  IN {[i \in 1..n |-> vec[f[i]]] : f \in
        {g \in perms : \A i \in 1..(n - 1) : vec[g[i]].bytes >= vec[g[i + 1]].bytes}}

\* the entries the loop skips: an excluded name, a hidden name under -H
Skipped(c, path) ==
  \/ \E i \in 1..Len(c.exclude) : file_name_from_path(path) = c.exclude[i]
  \/ c.hiddn_flag /\ StartsWithDot(file_name_from_path(path))

\* a threshold test that also aggregates an entry of exactly cfg.aggr bytes
AggregatesInclusive(c, e) == c.aggr > 0 /\ e.bytes <= c.aggr

\* cfg.aggr > 0 && entry.bytes < cfg.aggr
Aggregates(c, e) == c.aggr > 0 /\ e.bytes < c.aggr

AggregatedEntry(aggr_bytes) == Entry("<aggregated>", aggr_bytes, TRUE, None)

\* a fix-up that marks nothing
MarkLastNothing(vec) == vec

\* vec[len-1].last = true
MarkLast(vec) ==
  IF Len(vec) > 0
  THEN [vec EXCEPT ![Len(vec)] = [@ EXCEPT !.last = TRUE]]
  ELSE vec

\* lines 233-249: sort, append <aggregated>, mark the last element
FinishList(sorted, aggr_bytes) ==
  MarkLast(IF aggr_bytes > 0
           THEN Append(sorted, AggregatedEntry(aggr_bytes))
           ELSE sorted)

\* a builder that forgets the directory's own footprint
TotalBytesChildrenOnly(path, usage_flag, entries) == SumSeq(BytesOf(entries))

\* lines 254-259: the directory's own footprint plus its list's sizes
TotalBytes(path, usage_flag, entries) ==
  try_bytes_from_path(path, usage_flag) + SumSeq(BytesOf(entries))

\* the remaining depth Entry::new works with (line 214)
RemainingDepth(c, depth) == IF c.depth_flag THEN WrappingSub(depth, 1) ELSE 1

\* line 216
Expands(path, c, depth) ==
  path.is_dir /\ (~c.depth_flag \/ RemainingDepth(c, depth) > 0)

RECURSIVE SeqProduct(_)
\* the sequences that take their i-th element from sets[i]
SeqProduct(sets) ==
  IF sets = << >> THEN {<< >>}
  ELSE {<<x>> \o rest : x \in sets[1], rest \in SeqProduct(Tail(sets))}

RECURSIVE Entry_new(_, _, _)
\* the entries Entry::new(path, cfg, depth) can return
Entry_new(path, c, depth) ==
  LET dir_list == try_read_dir(path)
  IN IF Expands(path, c, depth) /\ IsSome(dir_list)
     THEN LET kept == SelectSeq(dir_list[1], LAMBDA p : ~Skipped(c, p))
              made == [i \in 1..Len(kept) |->
                         Entry_new(kept[i], c, RemainingDepth(c, depth))]
          IN UNION {
               LET aggr_bytes ==
                     SumSeq(BytesOf(SelectSeq(es, LAMBDA e : Aggregates(c, e))))
                   vec == SelectSeq(es, LAMBDA e : ~Aggregates(c, e))
               IN { LET entries == FinishList(sorted, aggr_bytes)
                    IN Entry(file_name_from_path(path),
                             TotalBytes(path, c.usage_flag, entries),
                             FALSE, Some(entries))
                    : sorted \in sort_unstable_by(vec) }
               : es \in SeqProduct(made) }
     ELSE { Entry(file_name_from_path(path), get_bytes(path, c.usage_flag),
                  FALSE, None) }

----------------------------------------------------------------------------
(* fmt_bar.  The result is [fail, cells, pct]: fail is "no" when the call  *)
(* returns, and then cells are the glyphs between the two bars and pct the *)
(* printed percentage; otherwise fail names the panic.                     *)

\* vec![ ' ', '#' ] and vec![ ' ', '░', '▒', '▓', '█' ]
block_char(ascii_flag) ==
  IF ascii_flag THEN << " ", "#" >>
  ELSE << " ", "light", "medium", "dark", "full" >>

BarFailed(why) == [fail |-> why, cells |-> << >>, pct |-> 0]

\* the next element of the iterator bytesi, or 0 past its end (unwrap_or(&0))
NextPart(bytes, i) == IF i <= Len(bytes) THEN bytes[i] ELSE 0

RECURSIVE FmtBarLoop(_, _, _, _, _)
\* the loop of lines 366-379 from column x on; st holds its variables
FmtBarLoop(x, width, st, bytes, blocks) ==
  IF x >= width THEN st
  ELSE IF x > st.pos
  THEN IF st.part = 0
       THEN [st EXCEPT !.fail = "div_by_zero"]
       ELSE LET part == NextPart(bytes, st.next)
                bars == (part * st.bars) \div st.part
                levels == Len(bytes) - 1
                chr  == IF st.chr + 1 = levels \/ st.chr + 1 >= Len(blocks)
                        THEN Len(blocks) - 1
                        ELSE st.chr + 1
            IN FmtBarLoop(x + 1, width,
                 [st EXCEPT !.total = st.part, !.part = part, !.bars = bars,
                            !.pos = width - bars, !.chr = chr,
                            !.next = st.next + 1,
                            !.cells = Append(st.cells, blocks[chr + 1])],
                 bytes, blocks)
  ELSE FmtBarLoop(x + 1, width,
         [st EXCEPT !.cells = Append(st.cells, blocks[st.chr + 1])],
         bytes, blocks)

fmt_bar(bytes, width, ascii_flag) ==
  IF width < 7 THEN BarFailed("overflow")
  ELSE IF bytes[1] = 0 THEN BarFailed("div_by_zero")
  ELSE
    LET w    == width - 2 - 5
        bars == (bytes[2] * w) \div bytes[1]
        st   == FmtBarLoop(0, w,
                  [fail |-> "no", total |-> bytes[1], part |-> bytes[2],
                   bars |-> bars, pos |-> w - bars, chr |-> 0, next |-> 3,
                   cells |-> << >>],
                  bytes, block_char(ascii_flag))
    IN IF st.fail # "no" THEN BarFailed(st.fail)
       ELSE IF bytes[Len(bytes) - 1] = 0 THEN BarFailed("div_by_zero")
       ELSE [fail |-> "no", cells |-> st.cells,
             pct |-> (bytes[Len(bytes)] * 100) \div bytes[Len(bytes) - 1]]

\* the cells of a bar that are not spaces
Filled(cells) == {i \in 1..Len(cells) : cells[i] # " "}

----------------------------------------------------------------------------
(* Entry::print and Entry::print_entries.  A printed row is                *)
(*   [id, tree, name_width, shown, bar, bytes]                             *)
(* id being the entry's place (the index in each children list on the way  *)
(* from the root), tree the connectors drawn before the name, shown the    *)
(* number of characters of the name kept by name.truncate(name_width) and  *)
(* bar the result of fmt_bar.  The result of print_entries is [rows, fail].*)

\* the width of an entry's name (all names of the model are ASCII)
NameLen(name) ==
  CASE name = "a" -> 1
    [] name = "b" -> 1
    [] name = ".git" -> 4
    [] name = "root" -> 4
    [] name = "<aggregated>" -> 12
    [] name = "<collection>" -> 12

Min(a, b) == IF a <= b THEN a ELSE b

\* lines 302-307: the connectors of a row, by name: blank and pipe for the
\* ancestors, then corner for a last sibling and tee for any other
TreeGlyphs(open_parents, last) ==
  [i \in 1..Len(open_parents) |-> IF open_parents[i] THEN "blank" ELSE "pipe"]
  \o << IF last THEN "corner" ELSE "tee" >>

RECURSIVE PrintFrom(_, _, _, _, _, _, _, _)
\* the loop of print_entries over self's children from the i-th on
PrintFrom(self, i, open_parents, parent_vals, ascii_flag, bar_width, tree_name_width, id) ==
  IF ~IsSome(self.entries) \/ i > Len(self.entries[1])
  THEN [rows |-> << >>, fail |-> "no"]
  ELSE
    LET e          == self.entries[1][i]
        bytes      == Append(parent_vals, e.bytes)
        tree_width == (Len(open_parents) + 1) * 3
        rest       == PrintFrom(self, i + 1, open_parents, parent_vals,
                                ascii_flag, bar_width, tree_name_width, id)
    IN IF tree_name_width >= tree_width
       THEN LET name_width == tree_name_width - tree_width
                bar == fmt_bar(bytes, bar_width, ascii_flag)
                row == [id |-> Append(id, i),
                        tree |-> TreeGlyphs(open_parents, e.last),
                        name_width |-> name_width,
                        shown |-> Min(NameLen(e.name), name_width),
                        bar |-> bar, bytes |-> e.bytes]
                below == IF IsSome(e.entries)
                         THEN PrintFrom(e, 1, Append(open_parents, e.last),
                                        bytes, ascii_flag, bar_width,
                                        tree_name_width, Append(id, i))
                         ELSE [rows |-> << >>, fail |-> "no"]
            IN IF bar.fail # "no"
               THEN [rows |-> << >>, fail |-> bar.fail]
               ELSE IF below.fail # "no"
               THEN [rows |-> <<row>> \o below.rows, fail |-> below.fail]
               ELSE [rows |-> <<row>> \o below.rows \o rest.rows,
                     fail |-> rest.fail]
       ELSE rest

print_entries(self, open_parents, parent_vals, ascii_flag, bar_width, tree_name_width) ==
  PrintFrom(self, 1, open_parents, parent_vals, ascii_flag, bar_width,
            tree_name_width, << >>)

\* the fallback terminal width
DEF_WIDTH == 80

size_width == 15

\* 75% and 25% of the columns left of the size column
BarWidth(tw) == ((tw - size_width) * 75) \div 100

TreeNameWidth(tw) == ((tw - size_width) * 25) \div 100

\* Entry::print, given the width terminal_size answered
print(self, tw, ascii_flag) ==
  print_entries(self, << >>, << self.bytes >>, ascii_flag,
                BarWidth(tw), TreeNameWidth(tw))

----------------------------------------------------------------------------
(* run.                                                                    *)

\* a synthetic root that sorts its children as Entry::new sorts a directory's
CollectionSorted(entries) ==
  LET sorted == CHOOSE v \in sort_unstable_by(entries) : TRUE
  IN Entry("<collection>", SumSeq(BytesOf(entries)), FALSE, Some(MarkLast(sorted)))

\* lines 496-514: the synthetic root over the per-path entries, in the order
\* of cfg.paths
Collection(entries) ==
  Entry("<collection>", SumSeq(BytesOf(entries)), FALSE, Some(MarkLast(entries)))

\* the roots run can build, Entry::new being called with depth
RunEntries(c, depth) ==
  IF Len(c.paths) = 1
  THEN Entry_new(c.paths[1], c, depth)
  ELSE { Collection(es) :
           es \in SeqProduct([i \in 1..Len(c.paths) |->
                                Entry_new(c.paths[i], c, depth)]) }

\* cfg.depth + 1 does not fit a u8
DepthOverflows(c) == c.depth + 1 >= U8Modulus

\* run( cfg ), the terminal being tw columns wide.  overflow_checks tells
\* the build: with them (a debug build) an overflowing cfg.depth + 1 panics,
\* without them (a release build) it wraps to 0 and Entry::new's depth - 1
\* wraps in turn.
run(c, tw, overflow_checks) ==
  /\ pc = "start"
  /\ pc' = "done"
  /\ cfg' = c
  /\ twidth' = tw
  /\ wrapped' = DepthOverflows(c)
  /\ IF overflow_checks /\ DepthOverflows(c)
     THEN /\ entry' = None
          /\ out' = << >>
          /\ panicked' = "overflow"
     ELSE \E e \in RunEntries(c, WrappingAdd(c.depth, 1)) :
            LET printed == print(e, tw, c.ascii_flag)
            IN /\ entry' = Some(e)
               /\ out' = printed.rows
               /\ panicked' = printed.fail
  /\ UNCHANGED << fs, bar_in, bar_out >>

----------------------------------------------------------------------------
(* The inputs of run.                                                      *)

\* the largest depth limit tried besides 255; the trees are no deeper
MaxDepthOpt == 2

DepthOpts ==
  {None} \cup {Some(n) : n \in 0..MaxDepthOpt} \cup {Some(U8Modulus - 1)}

AggrOpts == {0, 16, 1024}

ExcludeOpts == {<< >>, << "b" >>}

\* the root alone, or (dutree root/*) its entries in either order
PathOpts(root) ==
  {<< root >>}
  \cup (IF Len(root.kids) >= 2 THEN {root.kids, Reverse(root.kids)} ELSE {})

\* the filters: none, -x b, -H, and both
FilterOpts == {<< x, h >> : x \in ExcludeOpts, h \in BOOLEAN}

\* the builds that differ on c: a debug and a release build differ only
\* where an integer overflows
Builds(c) == IF DepthOverflows(c) THEN BOOLEAN ELSE {TRUE}

\* the configurations that vary the aggregation, the filters, the size
\* measured and the command line's paths
Configs(root) ==
  { Config(d, a, f[1], f[2], u, FALSE, p) :
      d \in {None, Some(1)}, a \in AggrOpts,
      f \in {<< << >>, FALSE >>, << << "b" >>, TRUE >>},
      u \in BOOLEAN, p \in PathOpts(root) }

\* a narrow terminal: a bar of 10 cells and a name column of 5
NarrowWidths == {38}

\* the depth limits, with and without aggregation, under every filter
DepthConfigs(root) ==
  { Config(d, a, f[1], f[2], FALSE, FALSE, << root >>) :
      d \in DepthOpts, a \in {0, 16}, f \in FilterOpts }

\* terminals of 27, 38, 39 and 80 columns: name columns of 3, 5, 6 and 16
TermWidths == {27, 38, 39, DEF_WIDTH}

\* the renderings: both palettes, with and without aggregation
PrintConfigs(root) ==
  { Config(None, a, << >>, FALSE, FALSE, g, p) :
      a \in {0, 16}, g \in BOOLEAN, p \in PathOpts(root) }

Init ==
  /\ fs \in FsTrees
  /\ cfg = None
  /\ twidth = 0
  /\ pc = "start"
  /\ entry = None
  /\ out = << >>
  /\ panicked = "no"
  /\ wrapped = FALSE
  /\ bar_in = << >>
  /\ bar_out = None

Next ==
  \E c \in Configs(fs), tw \in NarrowWidths : \E overflow_checks \in Builds(c) :
    run(c, tw, overflow_checks)

Spec == Init /\ [][Next]_vars

\* run under every depth limit
DepthNext ==
  \E c \in DepthConfigs(fs), tw \in NarrowWidths :
    \E overflow_checks \in Builds(c) :
      run(c, tw, overflow_checks)

DepthSpec == Init /\ [][DepthNext]_vars

\* run on terminals of several widths
PrintNext ==
  \E c \in PrintConfigs(fs), tw \in TermWidths :
    \E overflow_checks \in Builds(c) :
      run(c, tw, overflow_checks)

PrintSpec == Init /\ [][PrintNext]_vars

----------------------------------------------------------------------------
(* fmt_bar on its own: the chains of sizes a printer can pass (two or more *)
(* sizes, none larger than the one before it).                             *)

\* the longest chain tried
MaxChain == 3

BarSizes == {0, 1, 50, 100}

\* bar_width: bars of 1, 10 and 20 cells
BarWidths == {8, 17, 27}

RECURSIVE Chains(_)
\* the non-increasing chains of exactly n sizes
Chains(n) ==
  IF n = 1 THEN {<< b >> : b \in BarSizes}
  ELSE UNION { {Append(ch, b) : b \in {x \in BarSizes : x <= ch[Len(ch)]}}
               : ch \in Chains(n - 1) }

BarInit ==
  /\ fs = FileNode("root", 0)
  /\ cfg = None
  /\ twidth = 0
  /\ pc = "start"
  /\ entry = None
  /\ out = << >>
  /\ panicked = "no"
  /\ wrapped = FALSE
  /\ bar_in \in {[bytes |-> ch, width |-> w, ascii_flag |-> g] :
                   ch \in UNION {Chains(n) : n \in 2..MaxChain},
                   w \in BarWidths, g \in BOOLEAN}
  /\ bar_out = None

\* one call of fmt_bar
fmt_bar_call ==
  /\ bar_out = None
  /\ bar_out' = Some(fmt_bar(bar_in.bytes, bar_in.width, bar_in.ascii_flag))
  /\ UNCHANGED << fs, cfg, twidth, pc, entry, out, panicked, wrapped, bar_in >>

BarNext == fmt_bar_call

BarSpec == BarInit /\ [][BarNext]_vars

----------------------------------------------------------------------------
(* The finished tree, entry by entry.                                      *)

Built == pc = "done" /\ IsSome(entry)

Root == entry[1]

IsCollection(e) == e.name = "<collection>"

IsAggregated(e) == e.name = "<aggregated>"

KidNamed(node, name) ==
  CHOOSE k \in {node.kids[i] : i \in 1..Len(node.kids)} : k.name = name

RECURSIVE Walk(_, _, _)
\* the entries of the tree Entry::new built for node, each with the path it
\* was built from (None for <aggregated>) and its level below that root
Walk(e, node, level) ==
  {[e |-> e, node |-> Some(node), level |-> level]}
  \cup (IF IsSome(e.entries)
        THEN UNION { IF IsAggregated(e.entries[1][i])
                     THEN {[e |-> e.entries[1][i], node |-> None,
                            level |-> level + 1]}
                     ELSE Walk(e.entries[1][i],
                               KidNamed(node, e.entries[1][i].name), level + 1)
                     : i \in 1..Len(e.entries[1]) }
        ELSE {})

\* the entries Entry::new built in this run
NewEntries ==
  IF IsCollection(Root)
  THEN UNION { Walk(Root.entries[1][i], cfg.paths[i], 0)
               : i \in 1..Len(cfg.paths) }
  ELSE Walk(Root, cfg.paths[1], 0)

\* the children lists Entry::new built
NewLists == {w.e.entries[1] : w \in {x \in NewEntries : IsSome(x.e.entries)}}

\* every children list of the finished tree
AllLists ==
  NewLists \cup (IF IsCollection(Root) THEN {Root.entries[1]} ELSE {})

\* the elements of a children list that are not the <aggregated> entry
Listed(list) == SelectSeq(list, LAMBDA e : ~IsAggregated(e))

NonIncreasing(list) ==
  \A i \in 1..(Len(list) - 1) : list[i].bytes >= list[i + 1].bytes

----------------------------------------------------------------------------
(* C1: every entry with a children list, the <collection> root included,   *)
(* has as its size its own footprint (try_bytes_from_path of its path, 0   *)
(* for <collection>) plus the sizes of all elements of its children list,  *)
(* <aggregated> included.                                                  *)

C1_SizeIsFootprintPlusChildren ==
  Built =>
    /\ \A w \in NewEntries :
         IsSome(w.e.entries) =>
           w.e.bytes = try_bytes_from_path(w.node[1], cfg.usage_flag)
                       + SumSeq(BytesOf(w.e.entries[1]))
    /\ IsCollection(Root) => Root.bytes = SumSeq(BytesOf(Root.entries[1]))

\* a <collection> one of whose trees has a children list with <aggregated>
C1_Witness ==
  /\ Built
  /\ IsCollection(Root)
  /\ \E w \in NewEntries :
       /\ IsSome(w.e.entries)
       /\ \E i \in 1..Len(w.e.entries[1]) : IsAggregated(w.e.entries[1][i])
       /\ w.e.bytes > SumSeq(BytesOf(w.e.entries[1]))

----------------------------------------------------------------------------
(* C3 as claimed: in every children list Entry::new produced the sizes are *)
(* non-increasing from first to last element, the appended <aggregated>    *)
(* entry counted as an element.                                            *)

C3_Claimed_NonIncreasingWithAggregate ==
  Built => \A list \in NewLists : NonIncreasing(list)

(* C3 as amended: in every children list Entry::new produced the sizes of  *)
(* the individually listed children are non-increasing; the <aggregated>   *)
(* entry, when present, is the last element whatever its size.             *)

C3_ListedNonIncreasing ==
  Built =>
    \A list \in NewLists :
      /\ NonIncreasing(Listed(list))
      /\ \A i \in 1..Len(list) : IsAggregated(list[i]) => i = Len(list)

\* a list the sort had to reorder, followed by <aggregated>
C3_Witness ==
  /\ Built
  /\ ~IsCollection(Root)
  /\ IsSome(Root.entries)
  /\ Len(Root.entries[1]) = 3
  /\ IsAggregated(Root.entries[1][3])
  /\ Root.entries[1][1].name = "b"
  /\ Root.entries[1][2].name = "a"
  /\ Root.entries[1][1].bytes > Root.entries[1][2].bytes

----------------------------------------------------------------------------
(* Children lists and their last marks.                                    *)

LastMarks(list) == {i \in 1..Len(list) : list[i].last}

\* the root is a directory holding exactly files of 2000, 10 and 10 bytes
Scenario2000 ==
  /\ Len(cfg.paths) = 1
  /\ fs.is_dir /\ Len(fs.kids) = 3
  /\ \A i \in 1..3 : ~fs.kids[i].is_dir
  /\ \E i \in 1..3 :
       /\ fs.kids[i].st_size = 2000
       /\ \A j \in (1..3) \ {i} : fs.kids[j].st_size = 10
  /\ cfg.aggr = 1024 /\ ~cfg.usage_flag
  /\ cfg.exclude = << >> /\ ~cfg.hiddn_flag

(* C4 as claimed: in every children list of the finished tree exactly one  *)
(* child has last = true and it is the final element.                      *)

C4_Claimed_ExactlyOneLast ==
  Built => \A list \in AllLists : LastMarks(list) = {Len(list)}

(* C4 as amended: in every non-empty children list of the finished tree    *)
(* exactly one child has last = true and it is the final element; an       *)
(* <aggregated> entry, when present, is that element; a directory of files *)
(* of 2000, 10 and 10 bytes under threshold 1024 is printed as the         *)
(* 2000-byte child with the non-last connector and then <aggregated>, 20   *)
(* bytes, with the last connector.  (An empty directory has an empty       *)
(* children list, in which no child is last.)                              *)

C4_OneLastInNonEmptyLists ==
  Built =>
    /\ \A list \in AllLists :
         /\ Len(list) > 0 => LastMarks(list) = {Len(list)}
         /\ \A i \in 1..Len(list) : IsAggregated(list[i]) => i = Len(list)
    /\ Scenario2000 =>
         /\ BytesOf(Root.entries[1]) = << 2000, 20 >>
         /\ IsAggregated(Root.entries[1][2])
         /\ Len(out) = 2
         /\ out[1].tree = << "tee" >> /\ out[1].bytes = 2000
         /\ out[2].tree = << "corner" >> /\ out[2].bytes = 20

C4_Witness == Built /\ Scenario2000 /\ Len(out) = 2

----------------------------------------------------------------------------
(* The aggregation of a directory's small entries.                         *)

\* the sizes of the entries Entry::new builds for the retained entries of
\* the directory w was built from
RetainedSizes(w) ==
  LET kept == SelectSeq(w.node[1].kids, LAMBDA p : ~Skipped(cfg, p))
      d == IF cfg.depth_flag THEN cfg.depth - w.level ELSE 1
  IN [i \in 1..Len(kept) |->
        (CHOOSE e \in Entry_new(kept[i], cfg, d) : TRUE).bytes]

SmallSum(sizes, t) ==
  SumSeq(SelectSeq(sizes, LAMBDA b : b < t))

Aggregate(list) == SelectSeq(list, IsAggregated)

(* C5: for threshold T > 0 and every expanded directory, every             *)
(* individually listed child has size >= T, the <aggregated> child's size  *)
(* is the sum of the sizes of the retained entries whose size is < T, and  *)
(* <aggregated> is absent exactly when that sum is 0; for T = 0 there is   *)
(* no <aggregated> child and every retained entry is listed.               *)

C5_AggregationPartition ==
  Built =>
    \A w \in NewEntries :
      IsSome(w.e.entries) =>
        LET list  == w.e.entries[1]
            sizes == RetainedSizes(w)
        IN IF cfg.aggr > 0
           THEN /\ \A i \in 1..Len(Listed(list)) :
                     Listed(list)[i].bytes >= cfg.aggr
                /\ Len(Aggregate(list)) <= 1
                /\ (Aggregate(list) = << >>) <=> (SmallSum(sizes, cfg.aggr) = 0)
                /\ \A i \in 1..Len(Aggregate(list)) :
                     Aggregate(list)[i].bytes = SmallSum(sizes, cfg.aggr)
                /\ Len(Listed(list))
                     = Len(SelectSeq(sizes, LAMBDA b : b >= cfg.aggr))
           ELSE /\ Aggregate(list) = << >>
                /\ Len(list) = Len(sizes)

\* a directory with a child of exactly T bytes listed, two smaller ones
\* aggregated
C5_Witness ==
  /\ Built
  /\ cfg.aggr = 16
  /\ \E w \in NewEntries :
       /\ IsSome(w.e.entries)
       /\ BytesOf(w.e.entries[1]) = << 16, 20 >>
       /\ IsAggregated(w.e.entries[1][2])

----------------------------------------------------------------------------
(* C10 as claimed: the children of <collection> are ordered by             *)
(* non-increasing size, whatever the order of the paths.                   *)

C10_Claimed_CollectionSorted ==
  (Built /\ IsCollection(Root)) => NonIncreasing(Root.entries[1])

(* C10 as amended: the children of <collection> are the per-path trees in  *)
(* the order in which the paths were given on the command line; run does   *)
(* not sort them, and marks only the last one as last.                     *)

C10_CollectionInPathOrder ==
  (Built /\ IsCollection(Root)) =>
    /\ Len(Root.entries[1]) = Len(cfg.paths)
    /\ \A i \in 1..Len(cfg.paths) :
         /\ Root.entries[1][i].name = cfg.paths[i].name
         /\ Root.entries[1][i].last = (i = Len(cfg.paths))

\* a <collection> whose children grow in size
C10_Witness ==
  /\ Built /\ IsCollection(Root)
  /\ Len(Root.entries[1]) = 3
  /\ Root.entries[1][1].bytes < Root.entries[1][2].bytes
  /\ Root.entries[1][2].bytes < Root.entries[1][3].bytes

----------------------------------------------------------------------------
(* The same run under another depth limit.                                 *)

RECURSIVE NamedSizes(_, _)
\* the size of every entry of a tree, under the names on the way to it
NamedSizes(e, above) ==
  {[at |-> Append(above, e.name), bytes |-> e.bytes]}
  \cup (IF IsSome(e.entries)
        THEN UNION {NamedSizes(e.entries[1][i], Append(above, e.name))
                    : i \in 1..Len(e.entries[1])}
        ELSE {})

\* cfg with another depth option
WithDepth(c, depth_opt) ==
  Config(depth_opt, c.aggr, c.exclude, c.hiddn_flag, c.usage_flag,
         c.ascii_flag, c.paths)

(* C2 as claimed (DepthSpec): for a fixed tree and a configuration fixed   *)
(* in everything but the depth limit, the size of the root, and of every   *)
(* entry present in both trees, is the same for every depth limit and for  *)
(* unlimited depth.                                                        *)

C2_Claimed_SizesIndependentOfDepth ==
  Built =>
    \A d \in DepthOpts :
      \A other \in RunEntries(WithDepth(cfg, d),
                              WrappingAdd(WithDepth(cfg, d).depth, 1)) :
        /\ other.bytes = Root.bytes
        /\ \A x \in NamedSizes(Root, << >>), y \in NamedSizes(other, << >>) :
             x.at = y.at => x.bytes = y.bytes

----------------------------------------------------------------------------
(* Expansion down to the depth limit.                                      *)

Listable(w) == IsSome(w.node) /\ IsSome(try_read_dir(w.node[1]))

(* C8 as claimed (DepthSpec): with depth limit N (any u8) the tree is      *)
(* expanded exactly N levels below the root: every listable directory at a *)
(* level < N has a children list, every entry at level N has none, no      *)
(* entry lies deeper; without a limit every listable directory is          *)
(* expanded; and the remaining-depth counter never overflows or underflows.*)

C8_Claimed_ExpandedToDepthWithoutOverflow ==
  pc = "done" =>
    /\ ~wrapped
    /\ panicked # "overflow"
    /\ Built =>
         \A w \in NewEntries :
           IF cfg.depth_flag
           THEN /\ w.level <= cfg.depth
                /\ (w.level < cfg.depth /\ Listable(w)) => IsSome(w.e.entries)
                /\ w.level = cfg.depth => ~IsSome(w.e.entries)
           ELSE Listable(w) => IsSome(w.e.entries)

----------------------------------------------------------------------------
(* C6 as claimed (PrintSpec): fmt_bar never fails with a division by zero  *)
(* on a chain the tree printer passes, a zero-size parent counting as      *)
(* ratio 0.                                                                *)

C6_Claimed_NoDivisionByZero == panicked # "div_by_zero"

----------------------------------------------------------------------------
(* The rows of the tree printer.                                           *)

RECURSIVE ShownFrom(_, _, _, _)
\* the places of the entries the claim has printed, in the claimed order:
\* self's children from the i-th on, each followed by its descendants
ShownFrom(self, i, id, tree_name_width) ==
  IF ~IsSome(self.entries) \/ i > Len(self.entries[1]) THEN << >>
  ELSE (IF tree_name_width - 3 * (Len(id) + 1) > 0
        THEN << Append(id, i) >>
             \o ShownFrom(self.entries[1][i], 1, Append(id, i), tree_name_width)
        ELSE << >>)
       \o ShownFrom(self, i + 1, id, tree_name_width)

(* C9 as claimed (PrintSpec): an entry at nesting level L whose available  *)
(* name width, tree_name_width - 3*L, is zero or negative is not printed,  *)
(* nor is any of its descendants; every entry whose width is positive and  *)
(* whose ancestors were all printed is printed exactly once, after its     *)
(* parent's row and before its next sibling's row.                         *)

C9_Claimed_PositiveWidthRowsPrinted ==
  Built =>
    [k \in 1..Len(out) |-> out[k].id]
      = ShownFrom(Root, 1, << >>, TreeNameWidth(twidth))

----------------------------------------------------------------------------
(* C7 as claimed (BarSpec): for a chain [total, part] and a bar of W cells *)
(* (W = width - 7) fmt_bar fills part * W / total cells, the rightmost     *)
(* ones: [100, 50] on 10 cells gives 5 filled cells and 50%, [100, 0] an   *)
(* empty bar and 0%.                                                       *)

C7_Claimed_FilledCellsProportional ==
  (IsSome(bar_out) /\ Len(bar_in.bytes) = 2 /\ bar_in.bytes[1] > 0) =>
    LET W == bar_in.width - 7
        n == (bar_in.bytes[2] * W) \div bar_in.bytes[1]
    IN /\ bar_out[1].fail = "no"
       /\ Len(bar_out[1].cells) = W
       /\ Filled(bar_out[1].cells) = (W - n + 1)..W
       /\ bar_out[1].pct = (bar_in.bytes[2] * 100) \div bar_in.bytes[1]

----------------------------------------------------------------------------
(* The order of children of equal size.                                    *)

\* the place of a name in the order read_dir returns a directory's entries
EnumIndex(name) == CHOOSE i \in 1..Len(NameOrder) : NameOrder[i] = name

\* the retained entries of the directory w was built from that are listed
\* individually, as [name, bytes], in enumeration order
ListedRetained(w) ==
  LET kept  == SelectSeq(w.node[1].kids, LAMBDA p : ~Skipped(cfg, p))
      sizes == RetainedSizes(w)
      all   == [i \in 1..Len(kept) |->
                  [name |-> kept[i].name, bytes |-> sizes[i]]]
  IN SelectSeq(all, LAMBDA x : ~(cfg.aggr > 0 /\ x.bytes < cfg.aggr))

NameAndBytes(list) ==
  {[name |-> list[i].name, bytes |-> list[i].bytes] : i \in 1..Len(list)}

(* C11 as claimed: the sort of a directory's individually listed children  *)
(* is stable: two children of equal size appear in the children list in    *)
(* the relative order in which the enumeration returned them.              *)

C11_Claimed_SortIsStable ==
  Built =>
    \A list \in NewLists :
      \A i, j \in 1..Len(Listed(list)) :
        (i < j /\ Listed(list)[i].bytes = Listed(list)[j].bytes) =>
          EnumIndex(Listed(list)[i].name) < EnumIndex(Listed(list)[j].name)

(* C11 as amended: the individually listed children of a directory are a   *)
(* permutation of its retained entries of size >= the threshold, in        *)
(* non-increasing order of size; the sort is sort_unstable_by, so children *)
(* of equal size may appear in any relative order, not necessarily the     *)
(* order of the enumeration.                                               *)

C11_ListedIsDescendingPermutation ==
  Built =>
    \A w \in NewEntries :
      IsSome(w.e.entries) =>
        LET list == Listed(w.e.entries[1])
            want == ListedRetained(w)
        IN /\ Len(list) = Len(want)
           /\ NameAndBytes(list) = NameAndBytes(want)
           /\ NonIncreasing(list)

\* two children of equal size listed against the order of the enumeration
C11_Witness ==
  /\ Built
  /\ \E list \in NewLists :
       \E i, j \in 1..Len(Listed(list)) :
         /\ i < j
         /\ Listed(list)[i].bytes = Listed(list)[j].bytes
         /\ EnumIndex(Listed(list)[i].name) > EnumIndex(Listed(list)[j].name)

====
